---- MODULE Spec2Model ----
(***************************************************************************)
(* Anytime Repairing A* of the shrdlite planner: class aStar with its      *)
(* driver anytimeAStarRepairing, the search pass improvePath and the path  *)
(* reconstruction calculatePath, run over small weighted graphs.           *)
(*                                                                         *)
(* Numbers. Edge costs and record costs are naturals. Cached heuristics    *)
(* and the bound factor are fractions <<n, d>> with d > 0 (the code uses   *)
(* doubles; the fractions are exact). JavaScript's undefined is written    *)
(* as the number -1, which no cost and no node key takes.                  *)
(***************************************************************************)
EXTENDS Integers, Sequences, FiniteSets, TLC

(* ---------------------------- bounds ----------------------------------- *)
MaxCost == 2
MaxH == 1
MaxTimeout == 1
NumNodes == 9
MaxCalls == 2

(* ---------------------------- constants -------------------------------- *)
InitialEpsilon == 4
MillisPerSecond == 1000
undefined == 0 - 1

(* ---------------------------- fractions -------------------------------- *)
RECURSIVE Gcd(_, _)
Gcd(a, b) == IF b = 0 THEN a ELSE Gcd(b, a % b)

Frac(n, d) == IF n = 0 THEN <<0, 1>> ELSE LET g == Gcd(n, d) IN <<n \div g, d \div g>>
Whole(n) == <<n, 1>>
FAdd(x, y) == Frac(x[1] * y[2] + y[1] * x[2], x[2] * y[2])
FMul(x, y) == Frac(x[1] * y[1], x[2] * y[2])
FDiv(x, y) == Frac(x[1] * y[2], x[2] * y[1])
FLess(x, y) == x[1] * y[2] < y[1] * x[2]
FLeq(x, y) == x[1] * y[2] <= y[1] * x[2]
FMin(x, y) == IF FLess(y, x) THEN y ELSE x

(* ---------------------------- graphs ----------------------------------- *)
(* A world is what the caller hands to aStarSearch: the graph (for every   *)
(* node the list outgoingEdges returns, in order), the start node, the     *)
(* goal predicate (as the set of nodes it accepts) and the heuristic.      *)
Nodes == 1 .. NumNodes

Edge(from, to, cost) == [from |-> from, to |-> to, cost |-> cost]

OutgoingOf(es, n) == SelectSeq(es, LAMBDA e : e.from = n)

(* Shortest distances, Inf for "no path". With costs that are not          *)
(* negative a cheapest walk visits no node twice.                           *)
Inf == NumNodes * 100
Min2(a, b) == IF a < b THEN a ELSE b
MinOf(set) == CHOOSE m \in set : \A x \in set : m <= x

(* The cost of the cheapest walk from n to a node of targets that avoids    *)
(* the nodes of seen.                                                       *)
RECURSIVE WalkCost(_, _, _, _)
WalkCost(es, targets, n, seen) ==
    IF n \in targets THEN 0
    ELSE MinOf({Inf} \cup
               { Min2(Inf, es[i].cost + WalkCost(es, targets, es[i].to, seen \cup {n})) :
                   i \in { j \in 1 .. Len(es) :
                             es[j].from = n /\ es[j].to \notin seen \cup {n} } })

DistToGoal(es, goals, n) == WalkCost(es, goals, n, {})

Admissible(es, goals, h) == \A n \in Nodes : h[n] <= DistToGoal(es, goals, n)

Consistent(es, goals, h) ==
    /\ \A n \in goals : h[n] = 0
    /\ \A i \in 1 .. Len(es) : h[es[i].from] <= es[i].cost + h[es[i].to]

(* The graph built from a skeleton (an ordered list of <<from, to, base>>)  *)
(* and one cost per edge, added to the base cost of the edge.               *)
WithCosts(skel, cs) ==
    [i \in 1 .. Len(skel) |-> Edge(skel[i][1], skel[i][2], skel[i][3] + cs[i])]

Costs == 0 .. MaxCost

HeuristicsOn(k) ==
    { [n \in Nodes |-> IF n <= k THEN hv[n] ELSE 0] : hv \in [1 .. k -> 0 .. MaxH] }

World(es, goals, h) == [edges |-> es, goal |-> goals, heuristics |-> h]

(* The worlds of a skeleton whose edge costs are one of the assignments in  *)
(* costs, with every admissible and consistent heuristic 0..MaxH on its k   *)
(* nodes.                                                                   *)
FamilyOver(skel, k, goals, costs) ==
    { World(WithCosts(skel, cs), goals, h) :
        <<cs, h>> \in { p \in costs \X HeuristicsOn(k) :
                          /\ Consistent(WithCosts(skel, p[1]), goals, p[2])
                          /\ Admissible(WithCosts(skel, p[1]), goals, p[2]) } }

(* Every assignment of costs 0..MaxCost to the edges of a skeleton.         *)
Family(skel, k, goals) == FamilyOver(skel, k, goals, [1 .. Len(skel) -> Costs])

(* Node 1 is the start of every world.                                      *)
(* Square: 1 -> 2, 1 -> 3, 3 -> 2, 2 -> 4 with goal 4: two routes to node 2, *)
(* and the edge into the goal costs 1 at least.                             *)
SquareSkeleton == << <<1, 2, 0>>, <<1, 3, 0>>, <<3, 2, 0>>, <<2, 4, 1>> >>
(* Fan: 1 -> 4, 1 -> 2, 1 -> 3, 3 -> 1, 3 -> 2 with goals 2 and 4.            *)
FanSkeleton == << <<1, 4, 0>>, <<1, 2, 0>>, <<1, 3, 0>>, <<3, 1, 0>>, <<3, 2, 0>> >>
(* Loop: 1 -> 3, 1 -> 2, 2 -> 1, 2 -> 4, 3 -> 4, 3 -> 1 with goal 4; the two  *)
(* edges back to the start cost 0.                                          *)
LoopSkeleton ==
    << <<1, 3, 0>>, <<1, 2, 0>>, <<2, 1, 0>>, <<2, 4, 0>>, <<3, 4, 0>>, <<3, 1, 0>> >>
(* Ring: 1 -> 2 -> 3 -> 1, with no goal at all or with the start as goal.   *)
RingSkeleton == << <<1, 2, 0>>, <<2, 3, 0>>, <<3, 1, 0>> >>

LoopWorlds ==
    FamilyOver(LoopSkeleton, 4, {4},
               { cs \in [1 .. Len(LoopSkeleton) -> Costs] : cs[3] = 0 /\ cs[6] = 0 })

(* The Loop graph searched for a goal that no node satisfies: the edges     *)
(* out of the start, the edges into node 4 and the edge 2 -> 1 cost 0.      *)
NoGoalLoopWorlds ==
    FamilyOver(LoopSkeleton, 4, {},
               { cs \in [1 .. Len(LoopSkeleton) -> Costs] : \A i \in 1 .. 5 : cs[i] = 0 })

(* Deep: three direct goals 2, 3, 4 at cost 10 or more end the first three  *)
(* passes; the cheap route 1 -> 5 -> 8 -> 7 -> 6 to goal 6 is held back by   *)
(* the heuristic until epsilon is 1.                                        *)
DeepWorld(c) ==
    World(<< Edge(1, 2, 10), Edge(1, 3, 10 + c), Edge(1, 4, 10 + c), Edge(1, 5, 1 + c),
             Edge(5, 6, 6), Edge(5, 7, 9), Edge(5, 8, 1),
             Edge(8, 9, 9), Edge(8, 7, 1), Edge(7, 6, 3) >>,
          {2, 3, 4, 6},
          [n \in Nodes |-> CASE n = 5 -> 5 [] n = 8 -> 4 [] n = 7 -> 3 [] OTHER -> 0])

Worlds ==
    Family(SquareSkeleton, 4, {4}) \cup Family(FanSkeleton, 4, {2, 4})
        \cup LoopWorlds \cup NoGoalLoopWorlds
        \cup Family(RingSkeleton, 3, {}) \cup Family(RingSkeleton, 3, {1})
        \cup { DeepWorld(c) : c \in Costs }

(* A few of these worlds, for the searches that follow one another and for  *)
(* the searches over an adapter that throws.                                *)
CallWorlds ==
    { w \in Family(SquareSkeleton, 4, {4}) :
        w.edges[1].cost = MaxCost /\ w.edges[2].cost = 0 /\ w.edges[4].cost = 1 }
      \cup { w \in Family(RingSkeleton, 3, {}) \cup Family(RingSkeleton, 3, {1}) :
                \A i \in 1 .. 3 : w.edges[i].cost = 1 }

(* ---------------------------- state ------------------------------------ *)
VARIABLES
    graph,          \* this.graph: the edge list outgoingEdges draws from
    start,          \* this.start
    goal,           \* this.goal, as the set of nodes the predicate accepts
    heuristics,     \* this.heuristics
    timeout,        \* the timeout argument
    now,            \* Date.now(), counted from the call
    timeoutTime,    \* local timeoutTime of anytimeAStarRepairing
    queueNodes,     \* the QueueNode objects, by identity (see RecIds)
    visitedSet,     \* this.visitedSet: the keys that have a record
    inconsistentSet,\* this.inconsistentSet: its keys in insertion order
    closedSet,      \* closedSet of the running improvePath pass
    queue,          \* this.queue: the heap array of the priority queue
    epsilon,        \* this.epsilon
    goalState,      \* this.goalState: a record identity, or undefined
    result,         \* local result of anytimeAStarRepairing
    results,        \* local results: the cost history
    currEpsilon,    \* local currEpsilon
    pc,             \* where the call stands
    calls,          \* the calls of aStarSearch made so far, this one included
    adapterFaults,  \* the nodes on which outgoingEdges and heuristics throw
    error,          \* the error the adapter has raised, or NoError
    state,          \* Planner: the State that outgoingEdges has produced last
    earlier,        \* Planner: a State produced before that one
    closedGoals,    \* history, no variable of the program: the goal records
                    \* improvePath has dequeued in this call, each with the cost
                    \* it had then
    called,         \* Interpreter.interpret or Planner.plan: which one runs
    given,          \* its first argument (parses, interpretations), each input
                    \* by what interpretCommand or planInterpretation does on it
    collected,      \* the list it builds (interpretations, plans): the inputs
                    \* whose results it holds, by their places in the argument
    errors,         \* its local errors
    position,       \* the place of forEach in the argument, counted from 1
    outcome         \* how the call has ended, or Running

vars == <<graph, start, goal, heuristics, timeout, now, timeoutTime, queueNodes,
          visitedSet, inconsistentSet, closedSet, queue, epsilon, goalState,
          result, results, currEpsilon, pc, calls, adapterFaults, error, state, earlier,
          closedGoals, called, given, collected, errors, position, outcome>>

plannerVars == <<state, earlier>>

callVars == <<called, given, collected, errors, position, outcome>>

(* What stays as it is for the whole of a call.                             *)
inputs == <<graph, start, goal, heuristics, timeout, calls, adapterFaults>>

(* Record identities. The record made for the start node in the driver is   *)
(* identity 0; it is never entered in visitedSet. Every other record is     *)
(* made in improvePath for a key that visitedSet does not hold yet and is   *)
(* stored there, so a key names it: identity k is visitedSet[k].            *)
RecIds == 0 .. NumNodes
StartRec == 0
NodeOf(id) == IF id = StartRec THEN start ELSE id

QueueNode(parent, cost, heuristic) ==
    [parent |-> parent, cost |-> cost, heuristic |-> heuristic]
NoQueueNode == QueueNode(undefined, undefined, Whole(0))

(* ---------------------------- priority queue --------------------------- *)
(* collections.PriorityQueue over collections.Heap: a binary heap in an     *)
(* array (index 1 here is index 0 there), ordered by the reversed           *)
(* nodeComparator, that is by ascending cost + heuristic. The entries are   *)
(* record identities, so a record changed in place changes under the heap.  *)
FValue(qn, id) == FAdd(Whole(qn[id].cost), qn[id].heuristic)

(* nodeComparator(node1, node2) > 0 *)
nodeComparatorPositive(qn, node1, node2) == FLess(FValue(qn, node1), FValue(qn, node2))

(* Heap.compare(a, b) > 0 with compare = reverse of nodeComparator          *)
HeapGreater(qn, a, b) == nodeComparatorPositive(qn, b, a)

Swap(data, i, j) == [data EXCEPT ![i] = data[j], ![j] = data[i]]

RECURSIVE siftUp(_, _, _)
siftUp(qn, data, index) ==
    LET parent == index \div 2 IN
    IF index > 1 /\ HeapGreater(qn, data[parent], data[index])
    THEN siftUp(qn, Swap(data, parent, index), parent)
    ELSE data

minIndex(qn, data, leftChild, rightChild) ==
    IF rightChild > Len(data)
    THEN IF leftChild > Len(data) THEN 0 ELSE leftChild
    ELSE IF ~HeapGreater(qn, data[leftChild], data[rightChild])
         THEN leftChild ELSE rightChild

RECURSIVE siftDown(_, _, _)
siftDown(qn, data, nodeIndex) ==
    LET min == minIndex(qn, data, 2 * nodeIndex, 2 * nodeIndex + 1) IN
    IF min > 0 /\ HeapGreater(qn, data[nodeIndex], data[min])
    THEN siftDown(qn, Swap(data, min, nodeIndex), min)
    ELSE data

enqueue(qn, data, id) == siftUp(qn, Append(data, id), Len(data) + 1)

(* The heap after removeRoot; the root itself is data[1].                   *)
removeRoot(qn, data) ==
    IF Len(data) = 1 THEN <<>>
    ELSE siftDown(qn, [SubSeq(data, 1, Len(data) - 1) EXCEPT ![1] = data[Len(data)]], 1)

(* ---------------------------- calculatePath ---------------------------- *)
SearchResult(path, cost) == [path |-> path, cost |-> cost]

(* new SearchResult<Node>(): the class declares path and cost and sets      *)
(* neither, so both read as undefined.                                      *)
NewSearchResult == SearchResult(<<undefined>>, undefined)

(* The declared and not yet assigned local result.                          *)
NoResult == NewSearchResult

Reverse(seq) == [i \in 1 .. Len(seq) |-> seq[Len(seq) + 1 - i]]

RECURSIVE ParentChain(_, _)
ParentChain(qn, id) ==
    IF qn[id].parent = undefined THEN <<NodeOf(id)>>
    ELSE <<NodeOf(id)>> \o ParentChain(qn, qn[id].parent)

(* calculatePath without its final reverse: the path runs goal to start.    *)
calculatePathUnreversed(qn, goalRec) ==
    SearchResult(ParentChain(qn, goalRec), qn[goalRec].cost)

calculatePath(qn, goalRec) ==
    SearchResult(Reverse(ParentChain(qn, goalRec)), qn[goalRec].cost)

(* ---------------------------- construction ----------------------------- *)
(* The error a throwing adapter function raises: which function, on which   *)
(* node. NoError while none has been raised.                                *)
Error(function, node) == <<function, node>>
NoError == <<>>

(* getNextState's null, for "no such edge".                                 *)
NoState == <<>>

(* The field initialisers of class aStar, run by every new aStar(...).      *)
NewVisitedSet == {}
NewInconsistentSet == <<>>
NewGoalState == undefined

(* aStarSearch called with one of the worlds of ws: a new aStar object and  *)
(* the locals of anytimeAStarRepairing, not yet assigned.                   *)
InitIn(ws) ==
    /\ \E w \in ws :
          /\ graph = w.edges
          /\ goal = w.goal
          /\ heuristics = w.heuristics
    /\ start = 1
    /\ timeout \in 0 .. MaxTimeout
    /\ now = 0
    /\ timeoutTime = undefined
    /\ queueNodes = [id \in RecIds |-> NoQueueNode]
    /\ visitedSet = NewVisitedSet
    /\ inconsistentSet = NewInconsistentSet
    /\ closedSet = {}
    /\ queue = <<>>
    /\ epsilon = InitialEpsilon
    /\ goalState = NewGoalState
    /\ result = NoResult
    /\ results = <<>>
    /\ currEpsilon = Whole(InitialEpsilon)
    /\ pc = "start"
    /\ error = NoError
    /\ closedGoals = {}

(* An adapter whose functions throw on the nodes of two sets, and the       *)
(* adapter that never throws.                                               *)
Faults(edges, heur) == [outgoingEdges |-> edges, heuristics |-> heur]
NoFaults == Faults({}, {})

(* The search runs over one of the small graphs above: no planner state.    *)
NoPlanner == state = NoState /\ earlier = NoState

(* How a call of Interpreter.interpret or Planner.plan stands: in its       *)
(* forEach, returned with the list it has built, or ended by throw value.   *)
Running == <<>>
Returns == <<"return">>
Throws(value) == <<"throw", value>>

(* Neither of the two has been called.                                      *)
NoCall ==
    /\ called = "none"
    /\ given = <<>>
    /\ collected = <<>>
    /\ errors = <<>>
    /\ position = 0
    /\ outcome = Running

Init == InitIn(Worlds) /\ calls = 1 /\ adapterFaults = NoFaults /\ NoPlanner /\ NoCall

(* anytimeAStarRepairing up to its first call of improvePath.               *)
Begin ==
    /\ pc = "start"
    /\ start \notin adapterFaults.heuristics
    /\ timeoutTime' = now + timeout
    /\ queueNodes' = [queueNodes EXCEPT
          ![StartRec] = QueueNode(undefined, 0, Whole(epsilon * heuristics[start]))]
    /\ queue' = <<StartRec>>
    /\ pc' = "improvePath"
    /\ UNCHANGED <<closedGoals, plannerVars, callVars, inputs, error, now, visitedSet, inconsistentSet, closedSet, epsilon,
                   goalState, result, results, currEpsilon>>

(* The clock moves on while the call runs. It is not followed beyond the    *)
(* deadline, after which its value decides nothing.                         *)
Tick ==
    /\ pc \in {"improvePath", "while"}
    /\ now < timeoutTime
    /\ now' = now + 1
    /\ UNCHANGED <<closedGoals, plannerVars, callVars, inputs, error, timeoutTime, queueNodes, visitedSet, inconsistentSet,
                   closedSet, queue, epsilon, goalState, result, results,
                   currEpsilon, pc>>

(* ---------------------------- improvePath ------------------------------ *)
(* What the body of the loop over adjEdges does for one edge, on            *)
(* st = [qn, queue, visited, incons]; closed is closedSet, which already    *)
(* holds the key of current.                                                *)
(* RelaxEdge as a plain best-first search without a closed set would do     *)
(* it: a known record is taken up again whenever the new path is no worse.  *)
RelaxEdgeReopening(st, current, closed, edge) ==
    LET targetNode == edge.to
        accumCost == edge.cost + st.qn[current].cost
        currHeur == Whole(heuristics[targetNode] * epsilon)
        qn2 == [st.qn EXCEPT ![targetNode] = QueueNode(current, accumCost, currHeur)]
    IN IF targetNode \in st.visited /\ st.qn[targetNode].cost < accumCost
       THEN st
       ELSE [st EXCEPT !.qn = qn2,
                       !.queue = enqueue(qn2, st.queue, targetNode),
                       !.visited = st.visited \cup {targetNode}]

(* RelaxEdge as plain A* has it: a record that is known at a higher cost is  *)
(* lowered and enqueued, closed or not; nothing goes to the inconsistent    *)
(* set.                                                                     *)
RelaxEdgeQueuesClosed(st, current, closed, edge) ==
    LET targetNode == edge.to
        accumCost == edge.cost + st.qn[current].cost
        currHeur == Whole(heuristics[targetNode] * epsilon)
        qn2 == [st.qn EXCEPT ![targetNode] = QueueNode(current, accumCost, currHeur)]
    IN IF targetNode \in st.visited /\ ~(st.qn[targetNode].cost > accumCost)
       THEN st
       ELSE [st EXCEPT !.qn = qn2,
                       !.queue = enqueue(qn2, st.queue, targetNode),
                       !.visited = st.visited \cup {targetNode}]

(* RelaxEdge without the comparison of costs: a known record takes the new  *)
(* path whatever it costs.                                                  *)
RelaxEdgeOverwrites(st, current, closed, edge) ==
    LET targetNode == edge.to
        accumCost == edge.cost + st.qn[current].cost
        currHeur == Whole(heuristics[targetNode] * epsilon)
        qn2 == [st.qn EXCEPT ![targetNode] = QueueNode(current, accumCost, currHeur)]
    IN IF targetNode \in st.visited /\ targetNode \in closed
       THEN [st EXCEPT !.qn = qn2,
                       !.incons = IF \E i \in 1 .. Len(st.incons) : st.incons[i] = targetNode
                                  THEN st.incons
                                  ELSE Append(st.incons, targetNode)]
       ELSE [st EXCEPT !.qn = qn2,
                       !.queue = enqueue(qn2, st.queue, targetNode),
                       !.visited = st.visited \cup {targetNode}]

(* RelaxEdge with the accumulated cost taken from current alone, the cost   *)
(* of the edge left out.                                                    *)
RelaxEdgeFreeEdge(st, current, closed, edge) ==
    LET targetNode == edge.to
        accumCost == st.qn[current].cost
        currHeur == Whole(heuristics[targetNode] * epsilon)
        qn2 == [st.qn EXCEPT ![targetNode] = QueueNode(current, accumCost, currHeur)]
    IN IF targetNode \in st.visited
       THEN IF st.qn[targetNode].cost > accumCost
            THEN IF targetNode \notin closed
                 THEN [st EXCEPT !.qn = qn2,
                                 !.queue = enqueue(qn2, st.queue, targetNode)]
                 ELSE [st EXCEPT !.qn = qn2,
                                 !.incons =
                                    IF \E i \in 1 .. Len(st.incons) : st.incons[i] = targetNode
                                    THEN st.incons
                                    ELSE Append(st.incons, targetNode)]
            ELSE st
       ELSE [st EXCEPT !.qn = qn2,
                       !.queue = enqueue(qn2, st.queue, targetNode),
                       !.visited = st.visited \cup {targetNode}]

(* RelaxEdge that takes a new path of the same cost as well as a cheaper    *)
(* one.                                                                     *)
RelaxEdgeOnTies(st, current, closed, edge) ==
    LET targetNode == edge.to
        accumCost == edge.cost + st.qn[current].cost
        currHeur == Whole(heuristics[targetNode] * epsilon)
        qn2 == [st.qn EXCEPT ![targetNode] = QueueNode(current, accumCost, currHeur)]
    IN IF targetNode \in st.visited
       THEN IF st.qn[targetNode].cost >= accumCost
            THEN IF targetNode \notin closed
                 THEN [st EXCEPT !.qn = qn2,
                                 !.queue = enqueue(qn2, st.queue, targetNode)]
                 ELSE [st EXCEPT !.qn = qn2,
                                 !.incons =
                                    IF \E i \in 1 .. Len(st.incons) : st.incons[i] = targetNode
                                    THEN st.incons
                                    ELSE Append(st.incons, targetNode)]
            ELSE st
       ELSE [st EXCEPT !.qn = qn2,
                       !.queue = enqueue(qn2, st.queue, targetNode),
                       !.visited = st.visited \cup {targetNode}]

RelaxEdge(st, current, closed, edge) ==
    LET targetNode == edge.to
        accumCost == edge.cost + st.qn[current].cost
        currHeur == Whole(heuristics[targetNode] * epsilon)
    IN IF targetNode \in st.visited
       THEN IF st.qn[targetNode].cost > accumCost
            THEN LET qn2 == [st.qn EXCEPT ![targetNode] =
                                QueueNode(current, accumCost, currHeur)]
                 IN IF targetNode \notin closed
                    THEN [st EXCEPT !.qn = qn2,
                                    !.queue = enqueue(qn2, st.queue, targetNode)]
                    ELSE [st EXCEPT !.qn = qn2,
                                    !.incons =
                                       IF \E i \in 1 .. Len(st.incons) : st.incons[i] = targetNode
                                       THEN st.incons
                                       ELSE Append(st.incons, targetNode)]
            ELSE st
       ELSE LET qn2 == [st.qn EXCEPT ![targetNode] =
                           QueueNode(current, accumCost, currHeur)]
            IN [st EXCEPT !.qn = qn2,
                          !.queue = enqueue(qn2, st.queue, targetNode),
                          !.visited = st.visited \cup {targetNode}]

RECURSIVE RelaxEdges(_, _, _, _, _)
RelaxEdges(st, current, closed, adjEdges, i) ==
    IF i > Len(adjEdges) THEN st
    ELSE RelaxEdges(RelaxEdge(st, current, closed, adjEdges[i]), current, closed,
                    adjEdges, i + 1)

(* The index of the first edge of adjEdges for whose target heuristics      *)
(* throws, 0 when there is none.                                            *)
FirstThrow(adjEdges) ==
    LET hits == { i \in 1 .. Len(adjEdges) : adjEdges[i].to \in adapterFaults.heuristics }
    IN IF hits = {} THEN 0 ELSE MinOf(hits)

(* The statements after a call of improvePath returns r: the first call     *)
(* starts the cost history and sets currEpsilon, the later ones extend      *)
(* the history.                                                             *)
Returned(r) ==
    /\ result' = r
    /\ results' = Append(results, r.cost)
    /\ currEpsilon' = IF results = <<>> THEN Whole(epsilon) ELSE currEpsilon
    /\ pc' = "while"

(* goalState taken from every goal that is dequeued, cheaper or not.        *)
LatestGoal(qn, current) == current

(* goalState taken from a dequeued goal that costs no more than the one     *)
(* held: ties replace it.                                                   *)
NoWorseGoal(qn, current) ==
    IF goalState = undefined \/ qn[goalState].cost >= qn[current].cost
    THEN current ELSE goalState

(* The record that is goalState once current, a goal, has been dequeued.    *)
BetterGoal(qn, current) ==
    IF goalState = undefined \/ qn[goalState].cost > qn[current].cost
    THEN current ELSE goalState

(* One turn of the loop of improvePath that dequeues a goal: the pass ends. *)
CloseGoal ==
    /\ pc = "improvePath"
    /\ queue # <<>>
    /\ LET current == queue[1] IN
          /\ NodeOf(current) \in goal
          /\ queue' = removeRoot(queueNodes, queue)
          /\ closedSet' = closedSet \cup {NodeOf(current)}
          /\ goalState' = BetterGoal(queueNodes, current)
          /\ Returned(calculatePath(queueNodes, goalState'))
          /\ closedGoals' = closedGoals \cup {<<current, queueNodes[current].cost>>}
    /\ UNCHANGED <<plannerVars, callVars, inputs, error, now, timeoutTime, queueNodes, visitedSet, inconsistentSet,
                   epsilon>>

(* One turn of the loop of improvePath that dequeues a node that is no      *)
(* goal: the node is closed and its outgoing edges are relaxed.             *)
Expand ==
    /\ pc = "improvePath"
    /\ queue # <<>>
    /\ LET current == queue[1]
           closed == closedSet \cup {NodeOf(current)}
           st == RelaxEdges([qn |-> queueNodes,
                             queue |-> removeRoot(queueNodes, queue),
                             visited |-> visitedSet,
                             incons |-> inconsistentSet],
                            current, closed, OutgoingOf(graph, NodeOf(current)), 1)
       IN /\ NodeOf(current) \notin goal
          /\ NodeOf(current) \notin adapterFaults.outgoingEdges
          /\ FirstThrow(OutgoingOf(graph, NodeOf(current))) = 0
          /\ closedSet' = closed
          /\ queueNodes' = st.qn
          /\ queue' = st.queue
          /\ visitedSet' = st.visited
          /\ inconsistentSet' = st.incons
    /\ UNCHANGED <<closedGoals, plannerVars, callVars, inputs, error, now, timeoutTime, epsilon, goalState, result, results,
                   currEpsilon, pc>>

(* improvePath leaving its loop without a look at goalState.                *)
QueueEmptyForgetsGoal ==
    /\ pc = "improvePath"
    /\ queue = <<>>
    /\ Returned(NewSearchResult)
    /\ UNCHANGED <<closedGoals, plannerVars, callVars, inputs, error, now, timeoutTime, queueNodes, visitedSet, inconsistentSet,
                   closedSet, queue, epsilon, goalState>>

(* improvePath leaves its loop on an empty queue.                           *)
QueueEmpty ==
    /\ pc = "improvePath"
    /\ queue = <<>>
    /\ Returned(IF goalState = undefined THEN NewSearchResult
                ELSE calculatePath(queueNodes, goalState))
    /\ UNCHANGED <<closedGoals, plannerVars, callVars, inputs, error, now, timeoutTime, queueNodes, visitedSet, inconsistentSet,
                   closedSet, queue, epsilon, goalState>>

(* ---------------------------- the driver's loop ------------------------ *)
(* Math.min over a cost that is undefined gives NaN, written <<0, 0>>;      *)
(* NaN > 0 is false.                                                        *)
NaN == <<0, 0>>
Positive(x) == x[2] # 0 /\ x[1] > 0

(* queueArray after the two loops that compute minCost: the heap array      *)
(* followed by the records of the inconsistent set.                         *)
queueArray == queue \o inconsistentSet

RECURSIVE MinOver(_, _, _)
MinOver(m, arr, i) ==
    IF i > Len(arr) THEN m
    ELSE MinOver(FMin(m, FAdd(Whole(queueNodes[arr[i]].cost),
                              FDiv(queueNodes[arr[i]].heuristic, Whole(epsilon)))),
                 arr, i + 1)

minCost ==
    IF result.cost = undefined THEN NaN
    ELSE MinOver(Whole(result.cost), queueArray, 1)

NewCurrEpsilon ==
    IF Positive(minCost)
    THEN FMin(Whole(epsilon), FDiv(Whole(result.cost), minCost))
    ELSE Whole(epsilon)

Tolerance == <<1, 10000>>
FSub(x, y) == FAdd(x, <<0 - y[1], y[2]>>)

(* The test of optimality by the bound alone, without the test for cost 0.  *)
IsOptimalByBoundOnly == FLess(FSub(NewCurrEpsilon, Tolerance), Whole(1))

IsOptimal == FLess(FSub(NewCurrEpsilon, Tolerance), Whole(1)) \/ result.cost = 0

(* The epsilon step in steps of 2.                                           *)
NextEpsilonByTwo == IF epsilon - 2 > 1 THEN epsilon - 2 ELSE 1

NextEpsilon == IF epsilon - 1 > 1 THEN epsilon - 1 ELSE 1

(* The loop that rescales every entry of queueArray and enqueues it in      *)
(* iterQueue, on st = [qn, queue].                                          *)
RECURSIVE Requeue(_, _, _, _)
Requeue(st, arr, epsilonDiv, i) ==
    IF i > Len(arr) THEN st
    ELSE LET node == arr[i]
             qn2 == [st.qn EXCEPT ![node].heuristic = FMul(@, epsilonDiv)]
         IN Requeue([qn |-> qn2, queue |-> enqueue(qn2, st.queue, node)],
                    arr, epsilonDiv, i + 1)

(* The loop condition fails: the deadline has passed.                       *)
TimedOut ==
    /\ pc = "while"
    /\ ~(now < timeoutTime)
    /\ pc' = "done"
    /\ UNCHANGED <<closedGoals, plannerVars, callVars, inputs, error, now, timeoutTime, queueNodes, visitedSet, inconsistentSet,
                   closedSet, queue, epsilon, goalState, result, results, currEpsilon>>

(* A turn of the loop that finds the current solution optimal and returns.  *)
ReturnOptimal ==
    /\ pc = "while"
    /\ now < timeoutTime
    /\ IsOptimal
    /\ currEpsilon' = NewCurrEpsilon
    /\ pc' = "done"
    /\ UNCHANGED <<closedGoals, plannerVars, callVars, inputs, error, now, timeoutTime, queueNodes, visitedSet, inconsistentSet,
                   closedSet, queue, epsilon, goalState, result, results>>

(* A turn of the loop that lowers epsilon, rebuilds the queue and enters    *)
(* the next pass of improvePath.                                            *)
NextPass ==
    /\ pc = "while"
    /\ now < timeoutTime
    /\ ~IsOptimal
    /\ currEpsilon' = NewCurrEpsilon
    /\ epsilon' = NextEpsilon
    /\ LET st == Requeue([qn |-> queueNodes, queue |-> <<>>], queueArray,
                         Frac(NextEpsilon, epsilon), 1)
       IN /\ queueNodes' = st.qn
          /\ queue' = st.queue
    /\ inconsistentSet' = <<>>
    /\ closedSet' = {}
    /\ pc' = "improvePath"
    /\ UNCHANGED <<closedGoals, plannerVars, callVars, inputs, error, now, timeoutTime, visitedSet, goalState, result, results>>

Next == Begin \/ Tick \/ CloseGoal \/ Expand \/ QueueEmpty \/ TimedOut
            \/ ReturnOptimal \/ NextPass

Spec == Init /\ [][Next]_vars

(* The program steps, without the clock.                                    *)
Step == Begin \/ CloseGoal \/ Expand \/ QueueEmpty \/ TimedOut \/ ReturnOptimal
            \/ NextPass

(* The call is one thread that runs until it returns: a step that can be    *)
(* taken is taken. Nothing is assumed about the clock.                      *)
LiveSpec == Init /\ [][Next]_vars /\ WF_vars(Step)

(* ---------------------------- adapter faults ------------------------- *)
(* heuristics(start) throws while the start record is built: the call ends  *)
(* there, nothing in the code catches.                                      *)
BeginThrows ==
    /\ pc = "start"
    /\ start \in adapterFaults.heuristics
    /\ timeoutTime' = now + timeout
    /\ error' = Error("heuristics", start)
    /\ pc' = "thrown"
    /\ UNCHANGED <<closedGoals, plannerVars, callVars, inputs, now, queueNodes, visitedSet, inconsistentSet,
                   closedSet, queue, epsilon, goalState, result, results, currEpsilon>>

(* What the turn of the loop has done when the error is raised: current is  *)
(* dequeued and closed, and the edges before the one whose target makes     *)
(* heuristics throw are relaxed (none when outgoingEdges itself throws).    *)
BeforeThrow(current) ==
    LET adjEdges == OutgoingOf(graph, NodeOf(current))
        first == IF NodeOf(current) \in adapterFaults.outgoingEdges
                 THEN 1 ELSE FirstThrow(adjEdges)
    IN RelaxEdges([qn |-> queueNodes,
                   queue |-> removeRoot(queueNodes, queue),
                   visited |-> visitedSet,
                   incons |-> inconsistentSet],
                  current, closedSet \cup {NodeOf(current)},
                  SubSeq(adjEdges, 1, first - 1), 1)

RaisedBy(current) ==
    IF NodeOf(current) \in adapterFaults.outgoingEdges
    THEN Error("outgoingEdges", NodeOf(current))
    ELSE LET adjEdges == OutgoingOf(graph, NodeOf(current))
         IN Error("heuristics", adjEdges[FirstThrow(adjEdges)].to)

(* The turn of the loop with a try/catch around the adapter calls: the      *)
(* error is dropped and the pass returns an empty result.                   *)
ExpandSwallows ==
    /\ pc = "improvePath"
    /\ queue # <<>>
    /\ LET current == queue[1]
           st == BeforeThrow(current)
       IN /\ NodeOf(current) \notin goal
          /\ \/ NodeOf(current) \in adapterFaults.outgoingEdges
             \/ FirstThrow(OutgoingOf(graph, NodeOf(current))) > 0
          /\ closedSet' = closedSet \cup {NodeOf(current)}
          /\ queueNodes' = st.qn
          /\ queue' = st.queue
          /\ visitedSet' = st.visited
          /\ inconsistentSet' = st.incons
          /\ error' = RaisedBy(current)
    /\ Returned(NewSearchResult)
    /\ UNCHANGED <<closedGoals, plannerVars, callVars, inputs, now, timeoutTime, epsilon, goalState>>

(* A turn of the loop of improvePath in which outgoingEdges(current.node)   *)
(* or heuristics(targetNode) throws: the error leaves improvePath,          *)
(* anytimeAStarRepairing and aStarSearch, none of which has a handler.      *)
ExpandThrows ==
    /\ pc = "improvePath"
    /\ queue # <<>>
    /\ LET current == queue[1]
           st == BeforeThrow(current)
       IN /\ NodeOf(current) \notin goal
          /\ \/ NodeOf(current) \in adapterFaults.outgoingEdges
             \/ FirstThrow(OutgoingOf(graph, NodeOf(current))) > 0
          /\ closedSet' = closedSet \cup {NodeOf(current)}
          /\ queueNodes' = st.qn
          /\ queue' = st.queue
          /\ visitedSet' = st.visited
          /\ inconsistentSet' = st.incons
          /\ error' = RaisedBy(current)
    /\ pc' = "thrown"
    /\ UNCHANGED <<closedGoals, plannerVars, callVars, inputs, now, timeoutTime, epsilon, goalState, result,
                   results, currEpsilon>>

(* An adapter with one throwing function on one node, or none.              *)
FaultyAdapters ==
    {NoFaults} \cup { Faults({n}, {}) : n \in 1 .. 4 }
               \cup { Faults({}, {n}) : n \in 1 .. 4 }

InitFaults ==
    InitIn(CallWorlds) /\ calls = 1 /\ adapterFaults \in FaultyAdapters /\ NoPlanner /\ NoCall

NextFaults == Next \/ BeginThrows \/ ExpandThrows

SpecFaults == InitFaults /\ [][NextFaults]_vars

(* ---------------------------- repeated calls ------------------------- *)
(* aStarSearch over search state that belongs to the module and not to the  *)
(* call: the record index, the inconsistent set, the goal record and        *)
(* epsilon are what the call before left.                                   *)
aStarSearchModuleState ==
    /\ pc = "done"
    /\ calls < MaxCalls
    /\ calls' = calls + 1
    /\ \E w \in CallWorlds :
          /\ graph' = w.edges
          /\ goal' = w.goal
          /\ heuristics' = w.heuristics
    /\ start' = 1
    /\ timeout' \in 0 .. MaxTimeout
    /\ now' = 0
    /\ timeoutTime' = undefined
    /\ closedSet' = {}
    /\ queue' = <<>>
    /\ result' = NoResult
    /\ results' = <<>>
    /\ currEpsilon' = Whole(InitialEpsilon)
    /\ pc' = "start"
    /\ closedGoals' = {}
    /\ UNCHANGED <<queueNodes, visitedSet, inconsistentSet, epsilon, goalState,
                   adapterFaults, error, plannerVars, callVars>>

(* The caller calls aStarSearch again once the call before has returned:    *)
(* new aStar(graph, start, goal, heuristics, timeout) makes an object with  *)
(* its own fields, and anytimeAStarRepairing starts with its own locals.    *)
(* The records of the call before are out of reach and dropped, and the     *)
(* clock is counted from the new call.                                      *)
aStarSearch ==
    /\ pc = "done"
    /\ calls < MaxCalls
    /\ calls' = calls + 1
    /\ \E w \in CallWorlds :
          /\ graph' = w.edges
          /\ goal' = w.goal
          /\ heuristics' = w.heuristics
    /\ start' = 1
    /\ timeout' \in 0 .. MaxTimeout
    /\ now' = 0
    /\ timeoutTime' = undefined
    /\ queueNodes' = [id \in RecIds |-> NoQueueNode]
    /\ visitedSet' = NewVisitedSet
    /\ inconsistentSet' = NewInconsistentSet
    /\ closedSet' = {}
    /\ queue' = <<>>
    /\ epsilon' = InitialEpsilon
    /\ goalState' = NewGoalState
    /\ result' = NoResult
    /\ results' = <<>>
    /\ currEpsilon' = Whole(InitialEpsilon)
    /\ pc' = "start"
    /\ closedGoals' = {}
    /\ UNCHANGED <<adapterFaults, error, plannerVars, callVars>>

InitCalls == InitIn(CallWorlds) /\ calls = 1 /\ adapterFaults = NoFaults /\ NoPlanner /\ NoCall

NextCalls == Next \/ aStarSearch

SpecCalls == InitCalls /\ [][NextCalls]_vars

(* ---------------------------- aStarSearchOriginal ---------------------- *)
(* Classic A*, kept in the source beside the anytime search. It uses the    *)
(* variables graph, start, goal, heuristics, timeout, now, queue,           *)
(* closedSet, result and pc; the others stay as they are. Its queue holds   *)
(* the QueueNode objects themselves, a new one for every enqueue and none   *)
(* ever changed: an entry is written [node, cost, heuristic, path], path    *)
(* being the nodes of its parent chain from the start to node.              *)
OriginalNode(n, cost, heuristic, path) ==
    [node |-> n, cost |-> cost, heuristic |-> Whole(heuristic), path |-> path]

(* The entries of a heap array and a new entry, each standing for itself.   *)
Objects(data, new) ==
    [e \in { data[i] : i \in 1 .. Len(data) } \cup {new} |-> e]

(* An entry for targetNode counts as a shorter path whatever its cost.      *)
anyPathExists(data, targetNode, accumCost) ==
    \E i \in 1 .. Len(data) : data[i].node = targetNode

(* What queue.forEach leaves in shorterPathExists: some entry for           *)
(* targetNode has a cost that accumCost does not undercut.                  *)
shorterPathExists(data, targetNode, accumCost) ==
    \E i \in 1 .. Len(data) : data[i].node = targetNode /\ accumCost >= data[i].cost

(* The body of the loop over adjEdges for the edges from index i on; closed *)
(* already holds current.node.                                              *)
RECURSIVE OriginalEdges(_, _, _, _, _)
OriginalEdges(data, current, closed, adjEdges, i) ==
    IF i > Len(adjEdges) THEN data
    ELSE LET targetNode == adjEdges[i].to
             accumCost == adjEdges[i].cost + current.cost
             newNode == OriginalNode(targetNode, accumCost, heuristics[targetNode],
                                     Append(current.path, targetNode))
         IN OriginalEdges(
               IF targetNode \notin closed /\ ~shorterPathExists(data, targetNode, accumCost)
               THEN enqueue(Objects(data, newNode), data, newNode)
               ELSE data,
               current, closed, adjEdges, i + 1)

(* aStarSearchOriginal up to its loop: startTime is now, which is 0.        *)
BeginOriginal ==
    /\ pc = "start"
    /\ LET startNode == OriginalNode(start, 0, heuristics[start], <<start>>)
       IN queue' = enqueue(Objects(<<>>, startNode), <<>>, startNode)
    /\ result' = SearchResult(<<>>, 0)
    /\ pc' = "original"
    /\ UNCHANGED <<closedGoals, plannerVars, callVars, inputs, error, now, timeoutTime, queueNodes, visitedSet,
                   inconsistentSet, closedSet, epsilon, goalState, results, currEpsilon>>

(* The clock moves on, a second at a time: the loop compares it with whole  *)
(* seconds only.                                                            *)
TickOriginal ==
    /\ pc = "original"
    /\ now < timeout * MillisPerSecond
    /\ now' = now + MillisPerSecond
    /\ UNCHANGED <<closedGoals, plannerVars, callVars, inputs, error, timeoutTime, queueNodes, visitedSet,
                   inconsistentSet, closedSet, queue, epsilon, goalState, result,
                   results, currEpsilon, pc>>

OriginalLoopCondition == now - 0 < timeout * MillisPerSecond /\ queue # <<>>

(* One turn of the loop: current is dequeued and closed; a goal ends the    *)
(* search with its path, any other node has its edges added.                *)
OriginalTurn ==
    /\ pc = "original"
    /\ OriginalLoopCondition
    /\ LET current == queue[1]
           rest == removeRoot(Objects(queue, current), queue)
           closed == closedSet \cup {current.node}
       IN /\ closedSet' = closed
          /\ IF current.node \in goal
             THEN /\ queue' = rest
                  /\ result' = SearchResult(current.path, result.cost + current.cost)
                  /\ pc' = "done"
             ELSE /\ queue' = OriginalEdges(rest, current, closed,
                                            OutgoingOf(graph, current.node), 1)
                  /\ UNCHANGED <<result, pc>>
    /\ UNCHANGED <<closedGoals, plannerVars, callVars, inputs, error, now, timeoutTime, queueNodes, visitedSet,
                   inconsistentSet, epsilon, goalState, results, currEpsilon>>

(* The loop ends on the clock or on an empty queue: the result is returned  *)
(* as it was initialised.                                                   *)
OriginalGivesUp ==
    /\ pc = "original"
    /\ ~OriginalLoopCondition
    /\ pc' = "done"
    /\ UNCHANGED <<closedGoals, plannerVars, callVars, inputs, error, now, timeoutTime, queueNodes, visitedSet,
                   inconsistentSet, closedSet, queue, epsilon, goalState, result,
                   results, currEpsilon>>

NextOriginal == BeginOriginal \/ TickOriginal \/ OriginalTurn \/ OriginalGivesUp

SpecOriginal == Init /\ [][NextOriginal]_vars

(* ---------------------------- Planner: the state graph ----------------- *)
(* The nodes the planner hands to aStarSearch. A State has the stacks of    *)
(* the world (each a list of object names, bottom first), the object the    *)
(* arm holds or null, the position of the arm (0 is the leftmost stack) and *)
(* the action that led to it. class is "State" for an instance of class     *)
(* State and "Object" for the plain object JSON.parse returns.              *)
MaxStacks == 3

null == "null"

State(stacks, holding, arm, action) ==
    [stacks |-> stacks, holding |-> holding, arm |-> arm, action |-> action,
     class |-> "State"]

(* clone(obj): JSON.parse(JSON.stringify(obj)) keeps the fields and loses   *)
(* the class.                                                               *)
clone(obj) == [obj EXCEPT !.class = "Object"]

(* The objects of the world: a large box and a small ball.                  *)
objects ==
    [n \in {"a", "b"} |->
        IF n = "a" THEN [form |-> "box", size |-> "large"]
                   ELSE [form |-> "ball", size |-> "small"]]

(* Interpreter.constraints(obj1, obj2, relation) for two objects that are   *)
(* not the same one and not the floor.                                      *)
constraints(obj1, obj2, relation) ==
    CASE relation = "inside" ->
            IF obj2.form # "box" THEN FALSE
            ELSE IF obj2.size = "small"
                 THEN obj1.size = "small" /\ obj1.form \in {"ball", "brick", "table"}
                 ELSE obj1.size = "small" \/ obj1.form \notin {"pyramid", "box", "plank"}
      [] relation = "ontop" ->
            IF obj2.form = "ball" THEN FALSE
            ELSE IF obj1.form = "ball" THEN obj2.form = "floor"
            ELSE IF obj2.size = "small"
                 THEN IF obj1.size = "small"
                      THEN ~(obj1.form = "ball" /\ obj2.form = "box")
                      ELSE ~(obj1.form = "table"
                               /\ obj2.form \in {"box", "brick", "pyramid"})
                 ELSE IF obj2.form = "box"
                      THEN IF obj1.size = "small" THEN FALSE
                           ELSE obj1.form \notin {"table", "plank", "pyramid"}
                      ELSE TRUE
      [] OTHER -> FALSE

Pop(stack) == SubSeq(stack, 1, Len(stack) - 1)
Top(stack) == stack[Len(stack)]

(* getNextState with a "p" that leaves the object on its stack.             *)
getNextStateLeavesTop(action, st) ==
    LET x == st.arm + 1
    IN CASE action = "l" /\ st.arm > 0 ->
               State(st.stacks, st.holding, st.arm - 1, action)
         [] action = "r" /\ st.arm < Len(st.stacks) - 1 ->
               State(st.stacks, st.holding, st.arm + 1, action)
         [] action = "p" /\ st.holding = null /\ Len(st.stacks[x]) > 0 ->
               State(st.stacks, Top(st.stacks[x]), st.arm, action)
         [] action = "d" /\ st.holding # null ->
               State([st.stacks EXCEPT ![x] = Append(@, st.holding)], null, st.arm,
                     action)
         [] OTHER -> NoState

(* getNextState(action, state): the State the action leads to, NoState      *)
(* (null) when the action cannot be taken. The two returns of case "d"      *)
(* hand back newState, the clone, itself.                                   *)
getNextState(action, st) ==
    LET newState == clone(st)
        x == newState.arm + 1
    IN CASE action = "l" /\ st.arm > 0 ->
               State(newState.stacks, newState.holding, newState.arm - 1, action)
         [] action = "r" /\ st.arm < Len(st.stacks) - 1 ->
               State(newState.stacks, newState.holding, newState.arm + 1, action)
         [] action = "p" /\ st.holding = null /\ Len(newState.stacks[x]) > 0 ->
               State([newState.stacks EXCEPT ![x] = Pop(@)], Top(newState.stacks[x]),
                     newState.arm, action)
         [] action = "d" /\ st.holding # null
               /\ (Len(newState.stacks[x]) > 0 =>
                      \/ constraints(objects[newState.holding],
                                     objects[Top(newState.stacks[x])], "ontop")
                      \/ constraints(objects[newState.holding],
                                     objects[Top(newState.stacks[x])], "inside")) ->
               [newState EXCEPT !.stacks[x] = Append(@, newState.holding),
                                !.holding = null,
                                !.action = action]
         [] OTHER -> NoState

(* String(v) for a list of names: the names joined by commas.               *)
RECURSIVE Join(_)
Join(stack) ==
    IF stack = <<>> THEN ""
    ELSE IF Len(stack) = 1 THEN stack[1]
    ELSE stack[1] \o "," \o Join(Tail(stack))

(* this.stacks[i] in a string concatenation: "undefined" beyond the last    *)
(* stack.                                                                   *)
StackString(stacks, i) == IF i + 1 <= Len(stacks) THEN Join(stacks[i + 1]) ELSE "undefined"

(* State.toString() of a State; Object.prototype.toString() of a plain      *)
(* object.                                                                  *)
toString(st) ==
    IF st.class = "State"
    THEN "Arm: " \o ToString(st.arm) \o " | Holding: " \o st.holding
           \o " | Action: " \o st.action \o " | Stacks: "
           \o StackString(st.stacks, 0) \o ":" \o StackString(st.stacks, 1) \o ":"
           \o StackString(st.stacks, 2) \o ":" \o StackString(st.stacks, 3) \o ":"
           \o StackString(st.stacks, 4)
    ELSE "[object Object]"

(* The start states: one to MaxStacks stacks, the ball in the box or each   *)
(* object on the floor of a stack, nothing held, the arm over any stack.    *)
Put(stacks, i, name) == [stacks EXCEPT ![i] = Append(@, name)]

StartStates ==
    { State(Put(Put([k \in 1 .. n |-> <<>>], i, "a"), j, "b"), null, arm, null) :
        <<n, i, j, arm>> \in { q \in (1 .. MaxStacks) \X (1 .. MaxStacks)
                                       \X (1 .. MaxStacks) \X (0 .. MaxStacks - 1) :
                                 q[2] <= q[1] /\ q[3] <= q[1] /\ q[4] < q[1] } }

searchVars ==
    <<graph, start, goal, heuristics, timeout, now, timeoutTime, queueNodes,
      visitedSet, inconsistentSet, closedSet, queue, epsilon, goalState, result,
      results, currEpsilon, pc, calls, adapterFaults, error, closedGoals>>

(* planInterpretation builds the start state.                               *)
InitPlanner ==
    /\ InitIn({DeepWorld(0)})
    /\ calls = 1
    /\ adapterFaults = NoFaults
    /\ \E s \in StartStates : state = s /\ earlier = s
    /\ NoCall

(* StateGraph.outgoingEdges(state), one of its edges: the search moves on   *)
(* to the State the edge leads to.                                          *)
outgoingEdge ==
    /\ \E action \in {"l", "r", "p", "d"} :
          /\ getNextState(action, state) # NoState
          /\ state' = getNextState(action, state)
    /\ UNCHANGED <<earlier, searchVars, callVars>>

(* The search keeps the State it has reached, as a record of visitedSet     *)
(* does.                                                                    *)
Keep ==
    /\ earlier' = state
    /\ earlier # state
    /\ UNCHANGED <<state, searchVars, callVars>>

NextPlanner == outgoingEdge \/ Keep

SpecPlanner == InitPlanner /\ [][NextPlanner]_vars

(* ---------------------------- Planner: the second version --------------- *)
(* The second module Planner of Planner.ts. Its getNextState makes no copy: *)
(* every State it builds is given state.stacks itself, so the start state   *)
(* and all its successors share one array of stacks, and "p" pops from that *)
(* array. "d" has no edge.                                                  *)
undefinedHolding == "undefined"

(* state.holding == null: true of null and of undefined.                    *)
HoldsNothing(st) == st.holding \in {null, undefinedHolding}

(* The error of calling pop on state.stacks[state.arm] when the arm is      *)
(* beyond the last stack.                                                   *)
TypeError == <<"TypeError", "pop">>

(* stack.pop(): the value it returns (undefined for an empty stack) and     *)
(* the stack it leaves.                                                     *)
PopReturns(stack) == IF stack = <<>> THEN undefinedHolding ELSE Top(stack)
PopLeaves(stack) == IF stack = <<>> THEN <<>> ELSE Pop(stack)

PopThrows(st) == HoldsNothing(st) /\ st.arm + 1 > Len(st.stacks)

(* The shared array of stacks after getNextState(action, state).            *)
stacksAfter(action, st) ==
    IF action = "p" /\ HoldsNothing(st) /\ ~PopThrows(st)
    THEN [st.stacks EXCEPT ![st.arm + 1] = PopLeaves(@)]
    ELSE st.stacks

(* getNextState(action, state) of the second version: the State returned,   *)
(* its stacks read after the call.                                          *)
getNextStateSecond(action, st) ==
    CASE action = "l" /\ st.arm > 0 ->
           State(st.stacks, st.holding, st.arm - 1, action)
      [] action = "r" /\ st.arm < Len(st.stacks) ->
           State(st.stacks, st.holding, st.arm + 1, action)
      [] action = "p" /\ HoldsNothing(st) /\ ~PopThrows(st) ->
           State(stacksAfter(action, st), PopReturns(st.stacks[st.arm + 1]), st.arm,
                 action)
      [] OTHER -> NoState

searchFrame ==
    <<graph, start, goal, heuristics, timeout, now, timeoutTime, queueNodes,
      visitedSet, inconsistentSet, closedSet, queue, epsilon, goalState, result,
      results, currEpsilon, pc, calls, adapterFaults, closedGoals>>

(* StateGraph.outgoingEdges(state) of the second version: the four calls of *)
(* getNextState in the order l, r, p, d. The search moves on to one of the  *)
(* edges; state' is the State it leads to and earlier' the State that was   *)
(* given, both read after the call, when the pop of "p" has been done on    *)
(* the array they share.                                                    *)
outgoingEdgesSecond ==
    /\ error = NoError
    /\ ~PopThrows(state)
    /\ \E action \in {"l", "r", "p", "d"} :
          /\ getNextStateSecond(action, state) # NoState
          /\ state' = [getNextStateSecond(action, state)
                         EXCEPT !.stacks = stacksAfter("p", state)]
    /\ earlier' = [state EXCEPT !.stacks = stacksAfter("p", state)]
    /\ UNCHANGED <<error, searchFrame, callVars>>

(* The same call when the arm is beyond the last stack and nothing is held: *)
(* "p" throws and no edge is returned.                                      *)
outgoingEdgesSecondThrows ==
    /\ error = NoError
    /\ PopThrows(state)
    /\ error' = TypeError
    /\ UNCHANGED <<state, earlier, searchFrame, callVars>>

NextPlannerSecond == outgoingEdgesSecond \/ outgoingEdgesSecondThrows

SpecPlannerSecond == InitPlanner /\ [][NextPlannerSecond]_vars

(* ---------------------------- interpret and plan ------------------------ *)
(* Interpreter.interpret and Planner.plan: each goes through the list it is *)
(* given, keeps the results of interpretCommand or planInterpretation and   *)
(* the errors they throw, and returns the results or throws errors[0].      *)
MaxParses == 3

(* What interpretCommand does on a parse: it returns a formula, returns     *)
(* null (no interpretation found) or throws. planInterpretation returns a   *)
(* plan or throws.                                                          *)
OutcomesOf(function) ==
    IF function = "interpret" THEN {"formula", "null", "throws"} ELSE {"plan", "throws"}

(* The Error thrown on the input at place i, and the value of errors[0]     *)
(* when errors is empty.                                                    *)
ErrorAt(i) == <<"Error", i>>
undefinedValue == <<"undefined">>

First(list) == IF list = <<>> THEN undefinedValue ELSE list[1]

InitCall ==
    /\ InitIn({DeepWorld(0)})
    /\ calls = 1
    /\ adapterFaults = NoFaults
    /\ NoPlanner
    /\ called \in {"interpret", "plan"}
    /\ \E n \in 1 .. MaxParses : given \in [1 .. n -> OutcomesOf(called)]
    /\ collected = <<>>
    /\ errors = <<>>
    /\ position = 1
    /\ outcome = Running

InForEach(function) ==
    called = function /\ outcome = Running /\ position <= Len(given)

(* interpret, one turn of parses.forEach in which interpretCommand returns: *)
(* the result is kept unless it is null.                                    *)
interpretCommandReturns ==
    /\ InForEach("interpret")
    /\ given[position] # "throws"
    /\ collected' = IF given[position] # "null" THEN Append(collected, position)
                                                ELSE collected
    /\ position' = position + 1
    /\ UNCHANGED <<called, given, errors, outcome, searchVars, plannerVars>>

(* interpret, one turn in which interpretCommand throws.                    *)
interpretCommandThrows ==
    /\ InForEach("interpret")
    /\ given[position] = "throws"
    /\ errors' = Append(errors, ErrorAt(position))
    /\ position' = position + 1
    /\ UNCHANGED <<called, given, collected, outcome, searchVars, plannerVars>>

(* plan, one turn of interpretations.forEach in which planInterpretation    *)
(* returns.                                                                 *)
planInterpretationReturns ==
    /\ InForEach("plan")
    /\ given[position] # "throws"
    /\ collected' = Append(collected, position)
    /\ position' = position + 1
    /\ UNCHANGED <<called, given, errors, outcome, searchVars, plannerVars>>

(* plan, one turn in which planInterpretation throws.                       *)
planInterpretationThrows ==
    /\ InForEach("plan")
    /\ given[position] = "throws"
    /\ errors' = Append(errors, ErrorAt(position))
    /\ position' = position + 1
    /\ UNCHANGED <<called, given, collected, outcome, searchVars, plannerVars>>

(* After forEach, in both: return the list when it is not empty, throw      *)
(* errors[0] otherwise.                                                     *)
AfterForEach(function) ==
    called = function /\ outcome = Running /\ position = Len(given) + 1

ReturnOrThrow(list, errs) == IF Len(list) # 0 THEN Returns ELSE Throws(First(errs))

interpret ==
    /\ AfterForEach("interpret")
    /\ outcome' = ReturnOrThrow(collected, errors)
    /\ UNCHANGED <<called, given, collected, errors, position, searchVars, plannerVars>>

plan ==
    /\ AfterForEach("plan")
    /\ outcome' = ReturnOrThrow(collected, errors)
    /\ UNCHANGED <<called, given, collected, errors, position, searchVars, plannerVars>>

NextCall ==
    \/ interpretCommandReturns
    \/ interpretCommandThrows
    \/ planInterpretationReturns
    \/ planInterpretationThrows
    \/ interpret
    \/ plan

SpecCall == InitCall /\ [][NextCall]_vars

(* ---------------------------- properties ------------------------------- *)
OptimalCost == DistToGoal(graph, goal, start)
GoalReachable == OptimalCost < Inf

HasPath(r) == r.cost # undefined /\ r.path # <<>>

(* The cost of the first edge from a to b, Inf when there is none.          *)
EdgeCost(a, b) ==
    LET es == SelectSeq(graph, LAMBDA e : e.from = a /\ e.to = b)
    IN IF es = <<>> THEN Inf ELSE es[1].cost

RECURSIVE PathSum(_, _)
PathSum(path, i) ==
    IF i >= Len(path) THEN 0 ELSE EdgeCost(path[i], path[i + 1]) + PathSum(path, i + 1)

PassReturned == pc \in {"while", "done"}
ReturnedInLoop == pc = "done" /\ now < timeoutTime
ReturnedOnTimeout == pc = "done" /\ ~(now < timeoutTime)

(* C1: when the search returns from inside the loop (epsilon driven to 1,   *)
(* or the bound declared optimal) and a goal is reachable, result.cost is   *)
(* the cost of a shortest path from start to a goal.                        *)
C1_OptimalResult ==
    (ReturnedInLoop /\ GoalReachable) => result.cost = OptimalCost

(* C2: the cost a pass returns with a goal path lies between the optimal    *)
(* cost and epsilon times the optimal cost, epsilon being that pass's.      *)
C2_WithinBound ==
    (pc = "while" /\ HasPath(result)) =>
        /\ OptimalCost <= result.cost
        /\ result.cost <= epsilon * OptimalCost

(* C3: the cost of a returned path is the sum of the costs of its edges.    *)
C3_CostIsPathSum ==
    (PassReturned /\ HasPath(result)) => result.cost = PathSum(result.path, 1)

(* C4: a returned path starts at start, ends in a goal and follows edges    *)
(* of the graph from each node to the next.                                 *)
C4_PathIsWalk ==
    (PassReturned /\ HasPath(result)) =>
        /\ result.path[1] = start
        /\ result.path[Len(result.path)] \in goal
        /\ \A i \in 1 .. Len(result.path) - 1 :
              \E j \in 1 .. Len(graph) :
                 graph[j].from = result.path[i] /\ graph[j].to = result.path[i + 1]

C4_Witness ==
    pc = "done" /\ HasPath(result) /\ Len(result.path) >= 4 /\ Len(results) >= 2

(* C5: with no goal reachable the search returns the empty path at cost 0.  *)
C5_EmptyResult ==
    (pc = "done" /\ ~GoalReachable) => result = SearchResult(<<>>, 0)

(* C6: every search call returns. Rank is a natural number that every step  *)
(* of the call lowers, whatever the clock does: epsilon bounds the passes   *)
(* still to run, and within a pass every turn of the loop takes an entry    *)
(* off the queue, while an entry is added only for a key seen for the first *)
(* time or for a record whose cost has gone down.                           *)
MaxEdgeCost == CHOOSE m \in { graph[i].cost : i \in 1 .. Len(graph) } :
                  \A i \in 1 .. Len(graph) : graph[i].cost <= m
CostCap == (NumNodes + 1) * MaxEdgeCost
Weight(k) == IF k \in visitedSet THEN queueNodes[k].cost ELSE CostCap + 1

RECURSIVE SumWeights(_)
SumWeights(k) == IF k = 0 THEN 0 ELSE Weight(k) + SumWeights(k - 1)

PassRank == Len(queue) + SumWeights(NumNodes)
RankUnit == 2 * NumNodes * (CostCap + 1) + 2
PcRank == CASE pc = "start" -> 2 [] pc = "improvePath" -> 1 [] OTHER -> 0
Rank == IF pc = "done" THEN 0
        ELSE epsilon * 3 * RankUnit + PcRank * RankUnit + PassRank

C6_Terminates ==
    [][now' = now => (Rank' < Rank /\ Rank' >= 0 /\ PassRank < RankUnit)]_vars

C6_Witness == pc = "done" /\ Len(results) = InitialEpsilon /\ now < timeoutTime

(* C7: once the deadline has passed, improvePath expands no node.           *)
C7_NoExpansionAfterDeadline ==
    [][(pc = "improvePath" /\ ~(now < timeoutTime)) => ~(Expand \/ CloseGoal)]_vars

(* C8: with timeout 0 the driver runs one pass and returns its result; on   *)
(* a timeout after a pass has found a goal it returns the cheapest goal     *)
(* path any pass has returned.                                              *)
C8_TimeoutResult ==
    /\ (pc = "done" /\ timeout = 0) =>
          Len(results) = 1 /\ result.cost = results[1]
    /\ (ReturnedOnTimeout /\ \E i \in 1 .. Len(results) : results[i] # undefined) =>
          /\ HasPath(result)
          /\ goalState # undefined
          /\ result = calculatePath(queueNodes, goalState)
          /\ \A i \in 1 .. Len(results) :
                results[i] # undefined => result.cost <= results[i]

C8_Witness ==
    /\ ReturnedOnTimeout
    /\ timeout > 0
    /\ Len(results) >= 2
    /\ results[1] # undefined
    /\ queue # <<>>

(* C9: the costs in results never go up from one pass to the next, and      *)
(* once a pass has returned a path every later pass returns one.            *)
C9_CostsNonIncreasing ==
    \A i \in 1 .. Len(results) : \A j \in i .. Len(results) :
        results[i] # undefined =>
            results[j] # undefined /\ results[j] <= results[i]

C9_Witness == Len(results) >= 2 /\ results[1] # undefined /\ results[2] < results[1]

(* C10: the bound factor never goes up from one pass to the next.           *)
C10_BoundNonIncreasing == [][FLeq(currEpsilon', currEpsilon)]_vars

(* C11: the minCost the driver computes after a pass is no more than the    *)
(* optimal cost, and at every return with a path result.cost is no more     *)
(* than currEpsilon times the optimal cost (the heuristics of every world   *)
(* are admissible).                                                         *)
C11_SoundBound ==
    /\ (pc = "while" /\ HasPath(result) /\ GoalReachable) =>
          FLeq(minCost, Whole(OptimalCost))
    /\ (pc = "done" /\ HasPath(result) /\ GoalReachable) =>
          FLeq(Whole(result.cost), FMul(currEpsilon, Whole(OptimalCost)))

C14_ErrorPropagates ==
    /\ [](error # NoError =>
            /\ pc = "thrown"
            /\ error[2] \in adapterFaults[error[1]])
    /\ [](pc = "thrown" => error # NoError)
    /\ [][pc = "thrown" => pc' = "thrown" /\ error' = error]_vars

C14_Witness ==
    /\ pc = "thrown"
    /\ error[1] = "heuristics"
    /\ error[2] # start
    /\ visitedSet # {}

(* C15: the timeout argument counts seconds: the deadline is the time of    *)
(* the call (0 on the clock of the model, which counts milliseconds as      *)
(* Date.now() does) plus timeout times 1000.                                *)
C15_DeadlineInSeconds ==
    pc # "start" => timeoutTime = 0 + timeout * MillisPerSecond

(* C16: the queue is ordered by f = cost + epsilon * h: nodeComparator      *)
(* ranks one queued record ahead of another exactly when its f is smaller,  *)
(* and the record improvePath dequeues next has the least f of all the      *)
(* entries of the queue.                                                    *)
FOf(id) == queueNodes[id].cost + epsilon * heuristics[NodeOf(id)]

C16_ComparatorByF ==
    pc = "improvePath" =>
        \A i, j \in 1 .. Len(queue) :
            nodeComparatorPositive(queueNodes, queue[i], queue[j])
                <=> FOf(queue[i]) < FOf(queue[j])

C16_DequeueMinimum ==
    /\ C16_ComparatorByF
    /\ (pc = "improvePath" /\ queue # <<>>) =>
          \A i \in 1 .. Len(queue) : FOf(queue[1]) <= FOf(queue[i])

(* C17: two planner states have the same key (toString) exactly when they   *)
(* have the same stacks, the same held object and the same arm position.    *)
SameLogicalState(s, t) ==
    s.stacks = t.stacks /\ s.holding = t.holding /\ s.arm = t.arm

C17_KeyInjective ==
    (state # NoState /\ earlier # NoState) =>
        (toString(state) = toString(earlier) <=> SameLogicalState(state, earlier))

(* C18: aStarSearchOriginal dequeues by ascending cost + heuristic, returns *)
(* a cheapest path from start to a goal when it reaches one before the      *)
(* deadline, and the empty path at cost 0 when no goal can be reached or    *)
(* the time runs out first.                                                 *)
OriginalF(e) == FAdd(Whole(e.cost), e.heuristic)

OriginalResultRight ==
    pc = "done" =>
        IF result.path = <<>>
        THEN /\ result.cost = 0
             /\ ~GoalReachable \/ ~(now < timeout * MillisPerSecond)
        ELSE /\ GoalReachable
             /\ result.cost = OptimalCost
             /\ result.cost = PathSum(result.path, 1)
             /\ result.path[1] = start
             /\ result.path[Len(result.path)] \in goal

OriginalRootIsMinimum ==
    pc = "original" =>
        \A i \in 1 .. Len(queue) : FLeq(OriginalF(queue[1]), OriginalF(queue[i]))

C18_OriginalOptimal ==
    /\ []OriginalResultRight
    /\ []OriginalRootIsMinimum
    /\ [][(pc = "original" /\ queue # <<>> /\ queue' # <<>> /\ queue' # queue)
             => FLeq(OriginalF(queue[1]), OriginalF(queue'[1]))]_vars

C18_Witness ==
    /\ pc = "done"
    /\ Len(result.path) >= 4
    /\ result.cost > 0
    /\ queue # <<>>

(* C19: a record is in one of the sets Open, Closed and Inconsistent at a   *)
(* time: the queue holds no record twice, no record is in the queue and in  *)
(* the inconsistent set together, and no key that the pass has closed has   *)
(* an entry in the queue.                                                   *)
C19_OneSetPerRecord ==
    pc \in {"improvePath", "while"} =>
        /\ \A i, j \in 1 .. Len(queue) : i # j => queue[i] # queue[j]
        /\ \A i \in 1 .. Len(queue) : \A j \in 1 .. Len(inconsistentSet) :
              queue[i] # inconsistentSet[j]
        /\ \A i \in 1 .. Len(queue) : NodeOf(queue[i]) \notin closedSet

(* C20: a record of the inconsistent set is not dequeued while it is        *)
(* there, and it leaves the set only when the driver moves it into the      *)
(* queue of the next pass.                                                  *)
InInconsistentSet(incons, id) == \E j \in 1 .. Len(incons) : incons[j] = id

C20_InconsistentNotExpanded ==
    /\ [](pc = "improvePath" /\ queue # <<>> => ~InInconsistentSet(inconsistentSet, queue[1]))
    /\ [][\A id \in RecIds :
             (InInconsistentSet(inconsistentSet, id) /\ ~InInconsistentSet(inconsistentSet', id))
                => /\ pc = "while" /\ pc' = "improvePath"
                   /\ \E i \in 1 .. Len(queue') : queue'[i] = id]_vars

(* C21: a cheaper path to a node whose record is closed, by the running     *)
(* pass or by an earlier one, updates the cost and the parent of the record *)
(* and puts it in the inconsistent set, not in the queue. A record is       *)
(* closed when it has been dequeued and is neither in the queue nor in the  *)
(* inconsistent set.                                                        *)
Count(seq, id) == Cardinality({ i \in 1 .. Len(seq) : seq[i] = id })

Lowered(id) == queueNodes'[id].cost < queueNodes[id].cost

IsClosedRecord(id) ==
    id \in visitedSet /\ Count(queue, id) = 0 /\ ~InInconsistentSet(inconsistentSet, id)

C22_ExpandedOncePerPass ==
    (pc = "improvePath" /\ queue # <<>> /\ NodeOf(queue[1]) \notin goal) =>
        NodeOf(queue[1]) \notin closedSet

(* C23: there is one record for every node key the search has seen, the     *)
(* key of the start node included. The records are the one the driver       *)
(* makes for the start node and those improvePath has entered in           *)
(* visitedSet.                                                              *)
Records == (IF pc = "start" THEN {} ELSE {StartRec}) \cup visitedSet

C23_OneRecordPerKey ==
    \A a \in Records : \A b \in Records : NodeOf(a) = NodeOf(b) => a = b

(* C24: when a pass of improvePath starts (nothing closed yet), the cached  *)
(* heuristic of every record in the queue is epsilon times the heuristic    *)
(* of its node.                                                             *)
PassStarts == pc = "improvePath" /\ closedSet = {}

C24_CachedHeuristicScaled ==
    PassStarts =>
        \A i \in 1 .. Len(queue) :
            queueNodes[queue[i]].heuristic = Whole(epsilon * heuristics[NodeOf(queue[i])])

(* C25: at an epsilon step the new queue holds the records of the old queue *)
(* and of the inconsistent set, each of them once and no others, and the    *)
(* inconsistent set is empty when the next pass starts.                     *)
Range(seq) == { seq[i] : i \in 1 .. Len(seq) }

C25_QueueRebuilt ==
    [][(pc = "while" /\ pc' = "improvePath") =>
          /\ Range(queue') = Range(queue) \cup Range(inconsistentSet)
          /\ \A id \in Range(queue') : Count(queue', id) = 1
          /\ inconsistentSet' = <<>>]_vars

(* C26: the cost of a record never goes up, and the cost and the parent of  *)
(* a record change only in a step that makes the cost strictly smaller.     *)
C26_CostNeverIncreases ==
    [][\A id \in Records :
          /\ queueNodes'[id].cost <= queueNodes[id].cost
          /\ (queueNodes'[id].cost # queueNodes[id].cost
                 \/ queueNodes'[id].parent # queueNodes[id].parent)
                => queueNodes'[id].cost < queueNodes[id].cost]_vars

C26_Witness ==
    \E id \in visitedSet :
        /\ Count(queue, id) >= 2
        /\ queueNodes[id].parent # StartRec
        /\ queueNodes[id].cost < EdgeCost(start, id)

(* C27: once a goal has been closed, every pass returns the path of the     *)
(* cheapest goal record closed so far. A pass returns when it dequeues a    *)
(* goal, and takes that goal as the best one only if it is strictly         *)
(* cheaper than the best so far; a pass that empties the queue without      *)
(* closing a goal returns the best goal of the earlier passes; the best     *)
(* goal changes at no other step.                                           *)
ClosedGoalRecords == { p[1] : p \in closedGoals }

C27_ReturnsBestClosed ==
    (PassReturned /\ closedGoals # {}) =>
        /\ goalState \in ClosedGoalRecords
        /\ result = calculatePath(queueNodes, goalState)
        /\ \A p \in closedGoals :
              result.cost <= queueNodes[p[1]].cost /\ result.cost <= p[2]

C27_AtGoalClosure ==
    (pc = "improvePath" /\ queue # <<>> /\ NodeOf(queue[1]) \in goal /\ now' = now) =>
        /\ pc' = "while"
        /\ goalState' = IF goalState = undefined
                           \/ queueNodes[queue[1]].cost < queueNodes[goalState].cost
                        THEN queue[1] ELSE goalState
        /\ result' = calculatePath(queueNodes, goalState')

C27_AtEmptyQueue ==
    (pc = "improvePath" /\ queue = <<>> /\ goalState # undefined /\ now' = now) =>
        /\ pc' = "while"
        /\ goalState' = goalState
        /\ result' = calculatePath(queueNodes, goalState)

C27_BestGoalReturned ==
    /\ []C27_ReturnsBestClosed
    /\ [][C27_AtGoalClosure /\ C27_AtEmptyQueue]_vars
    /\ [][goalState' # goalState =>
            pc = "improvePath" /\ queue # <<>> /\ NodeOf(queue[1]) \in goal]_vars

C27_Witness ==
    /\ pc = "while"
    /\ Len(results) >= 3
    /\ Cardinality(ClosedGoalRecords) >= 2
    /\ \E p \in closedGoals : result.cost < p[2]

(* C28: the driver starts another pass only when the deadline has not       *)
(* passed, the bound factor it has just computed exceeds 1 by more than     *)
(* the tolerance and the cost of the result is not 0; and never when the    *)
(* queue and the inconsistent set are both empty.                           *)
C28_AnotherPassOnlyIf ==
    [][(pc = "while" /\ pc' = "improvePath") =>
          /\ now < timeoutTime
          /\ FLess(Whole(1), FSub(currEpsilon', Tolerance))
          /\ result.cost # 0
          /\ ~(queue = <<>> /\ inconsistentSet = <<>>)]_vars

(* C29: epsilon starts at 4, changes only at an epsilon step, goes down by  *)
(* exactly 1 there and stays at 1 or above; the pass that has returned is   *)
(* pass number 4 - epsilon + 1, so a call runs 4 passes at most, and the    *)
(* check after the pass with epsilon 1 returns.                             *)
C29_EpsilonRange ==
    /\ epsilon \in 1 .. InitialEpsilon
    /\ pc = "start" => epsilon = InitialEpsilon
    /\ PassReturned => Len(results) = InitialEpsilon - epsilon + 1
    /\ Len(results) <= InitialEpsilon

C29_EpsilonStep ==
    /\ epsilon' <= epsilon
    /\ epsilon' # epsilon => pc = "while" /\ pc' = "improvePath"
    /\ (pc = "while" /\ pc' = "improvePath") => epsilon' = epsilon - 1
    /\ (pc = "while" /\ epsilon = 1 /\ now' = now) => pc' = "done"

C29_EpsilonSchedule == []C29_EpsilonRange /\ [][C29_EpsilonStep]_vars

C29_Witness ==
    /\ pc = "done"
    /\ epsilon = 1
    /\ Len(results) = InitialEpsilon
    /\ HasPath(result)
    /\ results[1] # undefined
    /\ result.cost < results[1]

(* C30: the cost of a record that has a parent is at least the cost of the  *)
(* parent plus the cost of the edge from the parent's node to its own, and  *)
(* the cost of a returned path is at least the sum of the costs of its      *)
(* edges.                                                                   *)
C30_CostCoversParent ==
    /\ \A id \in Records :
          queueNodes[id].parent # undefined =>
              queueNodes[id].cost >=
                  queueNodes[queueNodes[id].parent].cost
                    + EdgeCost(NodeOf(queueNodes[id].parent), NodeOf(id))
    /\ (PassReturned /\ HasPath(result)) => result.cost >= PathSum(result.path, 1)

C30_Witness ==
    /\ PassReturned
    /\ HasPath(result)
    /\ Len(result.path) >= 3
    /\ result.cost > PathSum(result.path, 1)
    /\ \E id \in Records :
          /\ queueNodes[id].parent # undefined
          /\ queueNodes[id].cost >
                queueNodes[queueNodes[id].parent].cost
                  + EdgeCost(NodeOf(queueNodes[id].parent), NodeOf(id))

(* C31: the parent links of the records form no cycle: from every record    *)
(* the chain of parents reaches the start record, the one without a         *)
(* parent, within as many links as there are other records; a returned     *)
(* path starts at the start node and holds no node key twice.               *)
RECURSIVE ChainEndsAtStart(_, _, _)
ChainEndsAtStart(qn, id, links) ==
    IF qn[id].parent = undefined THEN id = StartRec
    ELSE links > 0 /\ ChainEndsAtStart(qn, qn[id].parent, links - 1)

NoKeyTwice(path) ==
    \A i \in 1 .. Len(path) : \A j \in 1 .. Len(path) : path[i] = path[j] => i = j

C31_ParentsFormNoCycle ==
    /\ \A id \in Records : ChainEndsAtStart(queueNodes, id, NumNodes)
    /\ (PassReturned /\ HasPath(result)) =>
          /\ result.path[1] = start
          /\ NoKeyTwice(result.path)

C31_Witness ==
    /\ PassReturned
    /\ HasPath(result)
    /\ Len(result.path) >= 3
    /\ start \in visitedSet
    /\ queueNodes[start].parent # undefined
    /\ \E id \in visitedSet :
          queueNodes[id].parent # StartRec /\ queueNodes[id].cost < EdgeCost(start, id)

(* C32: along the edges of the planner's state graph every object is in     *)
(* exactly one place, in one stack or in the arm. A "p" edge leaves only a  *)
(* state that holds nothing and has an object under the arm, and moves the  *)
(* top of that stack into the arm; a "d" edge leaves only a state that      *)
(* holds something, and moves it onto the top of the stack under the arm.   *)
Places(st, name) ==
    Cardinality({ q \in (1 .. Len(st.stacks)) \X (1 .. Cardinality(DOMAIN objects)) :
                    q[2] <= Len(st.stacks[q[1]]) /\ st.stacks[q[1]][q[2]] = name })
      + (IF st.holding = name THEN 1 ELSE 0)

EdgeTaken(action) == state' # state /\ state # NoState /\ state'.action = action

C32_PickAndDrop ==
    /\ [](state # NoState => \A name \in DOMAIN objects : Places(state, name) = 1)
    /\ [][EdgeTaken("p") =>
             /\ state.holding = null
             /\ Len(state.stacks[state.arm + 1]) > 0
             /\ state'.holding = Top(state.stacks[state.arm + 1])
             /\ state'.stacks = [state.stacks EXCEPT ![state.arm + 1] = Pop(@)]
             /\ state'.arm = state.arm]_vars
    /\ [][EdgeTaken("d") =>
             /\ state.holding # null
             /\ state'.holding = null
             /\ state'.stacks =
                   [state.stacks EXCEPT ![state.arm + 1] = Append(@, state.holding)]
             /\ state'.arm = state.arm]_vars

C32_Witness ==
    /\ state # NoState
    /\ state.action = "d"
    /\ earlier.action = "p"
    /\ earlier.arm # state.arm
    /\ \E i \in 1 .. Len(state.stacks) : Len(state.stacks[i]) = 2

(* C33: in the planner's state graph the arm stays over one of the stacks,  *)
(* at 0 .. (number of stacks - 1): an "l" edge leaves only a state whose    *)
(* arm is right of stack 0 and an "r" edge only a state whose arm is left   *)
(* of the last stack, and each moves the arm by one and changes neither     *)
(* the stacks nor the held object.                                          *)
ArmOverAStack(st) == st.arm \in 0 .. Len(st.stacks) - 1

C33_ArmInRange ==
    /\ [](state # NoState => ArmOverAStack(state))
    /\ [][EdgeTaken("l") =>
             /\ state.arm > 0
             /\ state'.arm = state.arm - 1
             /\ state'.stacks = state.stacks
             /\ state'.holding = state.holding]_vars
    /\ [][EdgeTaken("r") =>
             /\ state.arm < Len(state.stacks) - 1
             /\ state'.arm = state.arm + 1
             /\ state'.stacks = state.stacks
             /\ state'.holding = state.holding]_vars

(* C34: generating the successors of a state leaves that state as it was:  *)
(* after outgoingEdges has returned, the State it was given has the stacks, *)
(* the held object, the arm position and the action it had before the call. *)
C34_GivenStateUnchanged ==
    [][(state # NoState /\ state' # state) => earlier' = state]_vars

(* C35: interpret and plan return the results of all the inputs that gave   *)
(* one, in the order of the inputs, and throw only when no input gave a     *)
(* result; what they throw then is the error of the first input that threw, *)
(* never undefined.                                                         *)
Succeeded == { i \in 1 .. Len(given) : given[i] \in {"formula", "plan"} }
Failed == { i \in 1 .. Len(given) : given[i] = "throws" }

Ascending(list) == \A i \in 1 .. Len(list) - 1 : list[i] < list[i + 1]

C35_FirstErrorOrResults ==
    (called # "none" /\ outcome # Running) =>
        IF Succeeded # {}
        THEN /\ outcome = Returns
             /\ Range(collected) = Succeeded
             /\ Ascending(collected)
        ELSE \E i \in Failed :
                /\ outcome = Throws(ErrorAt(i))
                /\ \A j \in Failed : i <= j

====
